---- MODULE Spec2Model ----
(***************************************************************************)
(* Model of pymatgen/io/gwsetup/scheduler_error_parsers.py (Python 2).     *)
(*                                                                         *)
(* Text is modelled at the granularity of "chunks": a log line is a        *)
(* sequence of chunk strings whose concatenation is the line's text, cut   *)
(* at the boundaries of the strings and regular-expression elements the    *)
(* rule table names.  Substring containment is containment of a contiguous *)
(* chunk sequence; re.match is a match of the pattern's elements against   *)
(* the leading chunks of the line.                                         *)
(***************************************************************************)
EXTENDS Integers, Sequences, FiniteSets, TLC

\* ------------------------------------------------------------- bounds
MaxScan == 2
MaxWrites == 2
MaxParse == 2
MaxGets == 1
MaxShift == 1

\* ------------------------------------------------------- python values
\* Optional values: None is the empty sequence, a value v is <<v>>.
None == <<>>
Some(v) == <<v>>
\* The None a file reference defaults to (get_parser, __init__).
NoneRef == "<None>"
\* {} : the empty dict.
EmptyDict == [f \in {} |-> <<>>]

\* --------------------------------------------------------------- text
SUB == "sbatch: error: Batch job submission failed:"
QOS == " Job violates accounting/QOS policy"
MEM == "Exceeded job memory limit"
TIME == "Exceeded job time limit"
GEN == "a string to be found"
CANT == "can't open "
IPATH == "/dev/ipath"
SDA == "/dev/sda"
DOWN == ", network down"
ERR26 == " (err=26)"

\* Chunks made of decimal digits only, with their characters.
DigitStrings == {"003", "017", "10", "9", "12", "2"}
\* Chunks without any whitespace character.
NonSpaceStrings == DigitStrings \cup {IPATH, SDA, "node", "."}

Chars(s) ==
  CASE s = "003" -> <<0, 0, 3>>
    [] s = "017" -> <<0, 1, 7>>
    [] s = "10" -> <<1, 0>>
    [] s = "9" -> <<9>>
    [] s = "12" -> <<1, 2>>
    [] s = "2" -> <<2>>
    [] OTHER -> <<>>

\* Python's str.__lt__: lexicographic on the characters.
RECURSIVE SeqLess(_, _)
SeqLess(a, b) ==
  IF b = <<>> THEN FALSE
  ELSE IF a = <<>> THEN TRUE
  ELSE IF a[1] # b[1] THEN a[1] < b[1]
  ELSE SeqLess(Tail(a), Tail(b))

StrLess(s, t) == SeqLess(Chars(s), Chars(t))

\* sorted(set(values)) : the distinct values in ascending str order.
RECURSIVE SortedSet(_)
SortedSet(S) ==
  IF S = {} THEN <<>>
  ELSE LET m == CHOOSE x \in S : \A y \in S \ {x} : StrLess(x, y)
       IN <<m>> \o SortedSet(S \ {m})

\* `string in line` : plain substring containment.
Contains(line, str) ==
  \E i \in 1..(Len(line) - Len(str) + 1) : SubSeq(line, i, i + Len(str) - 1) = str

\* One element of a compiled pattern: a literal, \d+ or \S*, capturing or not.
Lit(t) == [cls |-> "lit", text |-> t, group |-> FALSE]
Grp(c) == [cls |-> c, text |-> "", group |-> TRUE]

ElemMatches(e, chunk) ==
  CASE e.cls = "lit" -> chunk = e.text
    [] e.cls = "digits" -> chunk \in DigitStrings
    [] e.cls = "nonspace" -> chunk \in NonSpaceStrings
    [] OTHER -> FALSE

\* re.match(pattern, line) is not None : anchored at the start of the line only.
ReMatch(pattern, line) ==
  /\ Len(line) >= Len(pattern)
  /\ \A i \in 1..Len(pattern) : ElemMatches(pattern[i], line[i])

\* re.match(pattern, line).group(g)
ReGroup(pattern, line, g) ==
  LET idx == {i \in 1..Len(pattern) : pattern[i].group}
      pos == CHOOSE i \in idx : Cardinality({j \in idx : j <= i}) = g
  IN line[pos]

\* f.read().split('\n') : the text of a file is its lines, each ended by '\n';
\* the split leaves the empty string after the last '\n'.
Split(content) == content \o << <<>> >>

\* ------------------------------------------------------- rule tables
Streams == {"err", "out", "run_err", "batch_err"}
Kinds == {"SubmitError", "FullQueueError", "MemoryCancelError", "TimeCancelError",
          "NodeFailureError", "AbstractError"}

SubmitString == <<SUB>>
FullQueueString == <<SUB, QOS>>
MemoryString == <<MEM>>
TimeString == <<TIME>>
NodeString == <<CANT, IPATH, DOWN>>
GenericString == <<GEN>>

NodePattern ==
  << Lit("node"), Grp("digits"), Lit("."), Grp("digits"), Lit(CANT), Grp("nonspace"),
     Lit(DOWN), Lit(ERR26) >>
NodeFilter == [f \in {"node"} |-> <<NodePattern, 1>>]

Rule(str, filter) == [string |-> str, meta_filter |-> filter]

SlurmErrorDefinitions ==
  [k \in Kinds |->
     CASE k = "SubmitError" -> [s \in {"batch_err"} |-> Rule(SubmitString, EmptyDict)]
       [] k = "FullQueueError" -> [s \in {"batch_err"} |-> Rule(FullQueueString, EmptyDict)]
       [] k = "MemoryCancelError" -> [s \in {"err"} |-> Rule(MemoryString, EmptyDict)]
       [] k = "TimeCancelError" -> [s \in {"err"} |-> Rule(TimeString, EmptyDict)]
       [] k = "NodeFailureError" -> [s \in {"run_err"} |-> Rule(NodeString, NodeFilter)]
       [] OTHER -> [s \in {"out"} |-> Rule(GenericString, EmptyDict)]]

\* The order the class statement writes the keys in.
DeclaredKinds ==
  <<"SubmitError", "FullQueueError", "MemoryCancelError", "TimeCancelError",
    "NodeFailureError", "AbstractError">>

\* ----------------------------------------------------------- classes
NoParser == "<no parser>"
ALL_PARSERS == [n \in {"slurm", "pbs"} |->
                  IF n = "slurm" THEN "SlurmErrorParser" ELSE "PBSErrorParse"]

\* A class is abstract while it inherits the abstractproperty error_definitions:
\* ABCMeta refuses to instantiate it.
IsAbstract(cls) == cls # "SlurmErrorParser"

\* ---------------------------------------------------- extract_metadata
extract_metadata(lines, meta_filter) ==
  [key \in DOMAIN meta_filter |->
     SortedSet({ ReGroup(meta_filter[key][1], lines[i], meta_filter[key][2]) :
                 i \in {j \in 1..Len(lines) : ReMatch(meta_filter[key][1], lines[j])} })]

\* -------------------------------------------------------- parse_single
NoFile == <<>>
\* The locals of parse_single before its loop; extracted records, for the history,
\* the streams extract_metadata was called on.
StartSingle ==
  [raised |-> "none", found |-> FALSE, message |-> None, metadata |-> None,
   extracted |-> {}]

\* LastHit with the scan stopping at the first line that matches.
LastHit_First(lines, str) ==
  LET hits == {i \in 1..Len(lines) : Contains(lines[i], str)}
  IN IF hits = {} THEN 0 ELSE CHOOSE i \in hits : \A j \in hits : i <= j

\* The last index of lines whose line contains str (0 when none does).
LastHit(lines, str) ==
  LET hits == {i \in 1..Len(lines) : Contains(lines[i], str)}
  IN IF hits = {} THEN 0 ELSE CHOOSE i \in hits : \A j \in hits : j <= i

\* One pass of the loop over errmsg.keys().
ParseStream(st, k, errmsg, fls, disk) ==
  IF st.raised # "none" THEN st
  ELSE IF fls[k] = NoneRef
    \* open(None) raises TypeError; its handler calls .cls() on the reference,
    \* which raises AttributeError out of parse_single.
    THEN [st EXCEPT !.raised = "AttributeError"]
  ELSE IF disk[fls[k]] = NoFile
    \* IOError: '... not found' is printed and the loop goes on.
    THEN st
  ELSE LET lines == Split(disk[fls[k]][1])
           hit == LastHit(lines, errmsg[k].string)
           found == st.found \/ hit > 0
       IN [raised |-> "none",
           found |-> found,
           message |-> IF hit > 0 THEN Some(lines[hit]) ELSE st.message,
           metadata |-> IF found THEN Some(extract_metadata(lines, errmsg[k].meta_filter))
                        ELSE st.metadata,
           extracted |-> IF found THEN st.extracted \cup {k} ELSE st.extracted]

RECURSIVE ParseStreams(_, _, _, _, _)
ParseStreams(st, ks, errmsg, fls, disk) ==
  IF ks = <<>> THEN st
  ELSE ParseStreams(ParseStream(st, Head(ks), errmsg, fls, disk), Tail(ks), errmsg, fls, disk)

\* parse_single(errmsg), with ks the order errmsg.keys() yields.
parse_single(errmsg, ks, fls, disk) == ParseStreams(StartSingle, ks, errmsg, fls, disk)

\* ---------------------------------------------------------------- parse
\* AbstractError.__init__(errmsg, meta_data), as a record with its class name.
NewError(kind, errmsg, meta_data) ==
  [kind |-> kind, errmsg |-> errmsg,
   meta_data |-> IF meta_data # None THEN meta_data[1] ELSE EmptyDict]

\* The key order of a rule set with a single stream.
OnlyKeys(errmsg) == <<CHOOSE k \in DOMAIN errmsg : TRUE>>

\* ParseKind with a kind skipped once the list holds an equal record.
ParseKind_Dedup(st, my_error, errmsg, ks, fls, disk) ==
  IF st.raised # "none" THEN st
  ELSE LET result == parse_single(errmsg, ks, fls, disk)
           new == NewError(my_error, result.message[1], result.metadata)
       IN IF result.raised # "none" THEN [st EXCEPT !.raised = result.raised]
          ELSE IF result.found /\ \A i \in 1..Len(st.errors) : st.errors[i] # new
            THEN [st EXCEPT !.errors = Append(@, new)]
          ELSE st

\* The body of the loop of parse() for one kind.
ParseKind(st, my_error, errmsg, ks, fls, disk) ==
  IF st.raised # "none" THEN st
  ELSE LET result == parse_single(errmsg, ks, fls, disk)
       IN IF result.raised # "none" THEN [st EXCEPT !.raised = result.raised]
          ELSE IF result.found
            THEN [st EXCEPT !.errors =
                    Append(@, NewError(my_error, result.message[1], result.metadata))]
          ELSE st

RECURSIVE ParseKinds(_, _, _, _, _)
ParseKinds(st, todo, defs, fls, disk) ==
  IF todo = <<>> THEN st
  ELSE ParseKinds(ParseKind(st, Head(todo), defs[Head(todo)], OnlyKeys(defs[Head(todo)]),
                            fls, disk),
                  Tail(todo), defs, fls, disk)

\* parse() with the list emptied at the start of the call.
parse_Reset(errs, iter, defs, fls, disk) ==
  ParseKinds([errors |-> <<>>, raised |-> "none"], iter, defs, fls, disk)

\* parse() : the records list after the call and the exception it ended in.
parse(errs, iter, defs, fls, disk) ==
  ParseKinds([errors |-> errs, raised |-> "none"], iter, defs, fls, disk)

\* ------------------------------------------------------------ inputs
LSubmit == <<SUB>>
LQos == <<SUB, QOS>>
LMem == <<"slurmstepd: error: ", MEM>>
LTime == <<"slurmstepd: error: ", TIME>>
LGen == <<GEN>>
LNode003 == <<"node", "003", ".", "12", CANT, IPATH, DOWN, ERR26>>
LNode017 == <<"node", "017", ".", "2", CANT, IPATH, DOWN, ERR26>>

\* The lines a job may leave in each stream (out also gets a submission line).
StreamLines ==
  [k \in Streams |->
     CASE k = "batch_err" -> {LSubmit, LQos}
       [] k = "err" -> {LMem, LTime}
       [] k = "run_err" -> {LNode003, LNode017}
       [] OTHER -> {LGen, LSubmit}]

\* The file names of the four streams.
PathOf ==
  [k \in Streams |->
     CASE k = "err" -> "queue.err"
       [] k = "out" -> "queue.out"
       [] k = "run_err" -> "run.err"
       [] OTHER -> "sbatch.err"]
Paths == {PathOf[k] : k \in Streams}

SeqsUpTo(S, n) == UNION {[1..m -> S] : m \in 0..n}

Rotate(s, r) == [i \in 1..Len(s) |-> s[((i - 1 + r) % Len(s)) + 1]]
Reverse(s) == [i \in 1..Len(s) |-> s[Len(s) + 1 - i]]

\* A dict keyed by classes iterates in an order decided by the classes' hashes
\* (their addresses): fixed within a process, arbitrary across builds.
DictOrders ==
  {Rotate(DeclaredKinds, r) : r \in 0..MaxShift}
    \cup {Rotate(Reverse(DeclaredKinds), r) : r \in 0..MaxShift}

\* -------------------------------------------------------------- state
VARIABLES
  fs,       \* the disk: path -> NoFile or <<lines>>
  order,    \* iteration order of the error_definitions dict in this process
  parser,   \* class of the constructed parser, or NoParser
  files,    \* self.files : stream -> file reference
  errors,   \* self.errors
  raised,   \* the exception the last call ended in ("none": it returned)
  call,     \* the last call made, with its arguments
  nparse, nwrites, ngets,   \* calls made so far
  base, first, since,       \* history: the list when the files last changed, the
                            \* records of the first parse() since, the calls since
  errmsg, keys, result      \* argument, key order and result of a lone parse_single

vars == <<fs, order, parser, files, errors, raised, call, nparse, nwrites, ngets,
          base, first, since, errmsg, keys, result>>

NoFiles == [k \in Streams |-> NoneRef]
NoCall == [op |-> "none", scheduler |-> "", refs |-> NoFiles]
single == <<errmsg, keys, result>>

Init ==
  /\ fs = [p \in Paths |-> NoFile]
  /\ order \in DictOrders
  /\ parser = NoParser
  /\ files = NoFiles
  /\ errors = <<>>
  /\ raised = "none"
  /\ call = NoCall
  /\ nparse = 0 /\ nwrites = 0 /\ ngets = 0
  /\ base = <<>> /\ first = <<>> /\ since = 0
  /\ errmsg = EmptyDict /\ keys = <<>> /\ result = StartSingle

\* ---------------------------------------------------------- get_parser
\* ALL_PARSERS.get(scheduler)
LookupParser(scheduler) ==
  IF scheduler \in DOMAIN ALL_PARSERS THEN Some(ALL_PARSERS[scheduler]) ELSE None

\* The call of cls with None handed back for a scheduler that is not registered,
\* as the docstring of get_parser words it.
Construct_ReturnsNone(cls, refs) ==
  IF cls = None
    THEN [raised |-> "none", parser |-> NoParser, files |-> NoFiles]
  ELSE IF IsAbstract(cls[1])
    THEN [raised |-> "TypeError", parser |-> NoParser, files |-> NoFiles]
  ELSE [raised |-> "none", parser |-> cls[1], files |-> refs]

\* cls(err_file, out_file, run_err_file, batch_err_file)
Construct(cls, refs) ==
  IF cls = None
    THEN [raised |-> "TypeError", parser |-> NoParser, files |-> NoFiles]
  ELSE IF IsAbstract(cls[1])
    THEN [raised |-> "TypeError", parser |-> NoParser, files |-> NoFiles]
  ELSE [raised |-> "none", parser |-> cls[1], files |-> refs]

\* The four file arguments of a call that names the files of the streams in given
\* and leaves the others None.
Refs(given) == [k \in Streams |-> IF k \in given THEN PathOf[k] ELSE NoneRef]

GetParser(scheduler, refs) ==
  /\ parser = NoParser
  /\ ngets < MaxGets
  /\ LET r == Construct(LookupParser(scheduler), refs)
     IN /\ parser' = r.parser
        /\ files' = r.files
        /\ raised' = r.raised
  /\ errors' = <<>>
  /\ call' = [op |-> "get_parser", scheduler |-> scheduler, refs |-> refs]
  /\ ngets' = ngets + 1
  /\ base' = <<>> /\ first' = <<>> /\ since' = 0
  /\ UNCHANGED <<fs, order, nparse, nwrites, single>>

\* ---------------------------------------------------------------- parse
\* self.error_definitions of an instance of cls, and the order it iterates in.
error_definitions(cls) ==
  IF cls = "SlurmErrorParser" THEN SlurmErrorDefinitions ELSE EmptyDict
IterOrder(cls, ord) == IF cls = "SlurmErrorParser" THEN ord ELSE <<>>

Parse ==
  /\ parser # NoParser
  /\ nparse < MaxParse
  /\ LET r == parse(errors, IterOrder(parser, order), error_definitions(parser), files, fs)
     IN /\ errors' = r.errors
        /\ raised' = r.raised
        /\ first' = IF since = 0 THEN SubSeq(r.errors, Len(errors) + 1, Len(r.errors))
                    ELSE first
  /\ since' = since + 1
  /\ nparse' = nparse + 1
  /\ call' = [op |-> "parse", scheduler |-> "", refs |-> NoFiles]
  /\ UNCHANGED <<fs, order, parser, files, ngets, nwrites, base, single>>

\* ---------------------------------------------------------- environment
\* The job appends a line to the log file of stream k, creating the file.
WriteFile(k, line) ==
  /\ nwrites < MaxWrites
  /\ fs' = [fs EXCEPT ![PathOf[k]] =
             IF @ = NoFile THEN Some(<<line>>) ELSE Some(Append(@[1], line))]
  /\ nwrites' = nwrites + 1
  /\ base' = errors /\ first' = <<>> /\ since' = 0
  /\ call' = [op |-> "write", scheduler |-> "", refs |-> NoFiles]
  /\ UNCHANGED <<order, parser, files, errors, raised, nparse, ngets, single>>

Next ==
  \/ \E scheduler \in {"slurm", "pbs", "unknown_backend"} : \E given \in SUBSET Streams :
       GetParser(scheduler, Refs(given))
  \/ Parse
  \/ \E k \in Streams : \E line \in StreamLines[k] : WriteFile(k, line)

Spec == Init /\ [][Next]_vars

\* ----------------------------------------------- a user-defined parser
\* A concrete parser in the format the docstring of AbstractErrorParser gives:
\* error_definitions = {DiskError: errmsg}, errmsg naming one or two streams.
LNode10 == <<"node", "10", ".", "2", CANT, IPATH, DOWN, ERR26>>
LNode9Sda == <<"node", "9", ".", "12", CANT, SDA, DOWN, ERR26>>
LPre003 == <<"[1] ", "node", "003", ".", "12", CANT, IPATH, DOWN, ERR26>>
ScanLines == {LNode10, LNode9Sda, LPre003, LMem}

TwoStreams == {"err", "run_err"}
CustomRules == {Rule(NodeString, NodeFilter), Rule(MemoryString, EmptyDict)}
RuleSets == UNION {[S -> CustomRules] : S \in (SUBSET TwoStreams) \ {{}}}

\* The orders errmsg.keys() may yield.
Perms(S) ==
  {q \in [1..Cardinality(S) -> S] : \A i, j \in 1..Cardinality(S) : i # j => q[i] # q[j]}

InitSingle ==
  /\ errmsg \in RuleSets
  /\ keys \in Perms(DOMAIN errmsg)
  /\ \E given \in SUBSET TwoStreams : files = Refs(given)
  /\ \E c \in [TwoStreams -> {NoFile} \cup {Some(x) : x \in SeqsUpTo(ScanLines, MaxScan)}] :
       fs = [p \in Paths |-> IF \E k \in TwoStreams : PathOf[k] = p /\ c[k] # NoFile
                             THEN c[CHOOSE k \in TwoStreams : PathOf[k] = p]
                             ELSE NoFile]
  /\ order = <<"DiskError">>
  /\ parser = "DiskErrorParser"
  /\ errors = <<>>
  /\ raised = "none"
  /\ call = NoCall
  /\ nparse = 0 /\ nwrites = 0 /\ ngets = 0
  /\ base = <<>> /\ first = <<>> /\ since = 0
  /\ result = StartSingle

\* parse() of the user-defined parser: one pass of the loop, for DiskError.
ParseCustom ==
  /\ nparse < MaxParse
  /\ result' = parse_single(errmsg, keys, files, fs)
  /\ LET r == ParseKind([errors |-> errors, raised |-> "none"], "DiskError", errmsg, keys,
                        files, fs)
     IN /\ errors' = r.errors
        /\ raised' = r.raised
  /\ nparse' = nparse + 1
  /\ since' = since + 1
  /\ call' = [op |-> "parse", scheduler |-> "", refs |-> NoFiles]
  /\ UNCHANGED <<fs, order, parser, files, ngets, nwrites, base, first, errmsg, keys>>

NextSingle == ParseCustom

SpecSingle == InitSingle /\ [][NextSingle]_vars

\* ============================================================== claims
\* The lines parse_single reads for stream k (none when the reference is None or
\* the file is missing).
LinesOf(k) ==
  IF files[k] = NoneRef \/ fs[files[k]] = NoFile THEN <<>> ELSE Split(fs[files[k]][1])

\* Some line of stream k contains str.
Hit(k, str) == \E i \in 1..Len(LinesOf(k)) : Contains(LinesOf(k)[i], str)

\* The text of the last line of stream k that contains str.
IsLastHit(line, k, str) ==
  \E n \in 1..Len(LinesOf(k)) :
    /\ LinesOf(k)[n] = line
    /\ Contains(line, str)
    /\ \A m \in (n + 1)..Len(LinesOf(k)) : ~Contains(LinesOf(k)[m], str)

\* The match string of kind K occurs in some line of K's stream.
Occurs(K) ==
  \E s \in DOMAIN SlurmErrorDefinitions[K] : Hit(s, SlurmErrorDefinitions[K][s].string)

CountOf(K) == Cardinality({i \in 1..Len(errors) : errors[i].kind = K})

\* The state right after the first parse() of a fresh SlurmErrorParser.
AfterFirstParse == parser = "SlurmErrorParser" /\ call.op = "parse" /\ nparse = 1

\* C1: after one parse() on a fresh SlurmErrorParser a record of kind K is in the
\* list iff K's match string occurs in a line of K's stream (once, and independently
\* of the other kinds): a submission line without the QOS text gives one SubmitError
\* and no FullQueueError, the QOS line gives one of each.
C1Independent ==
  AfterFirstParse =>
    \A K \in Kinds : CountOf(K) = IF Occurs(K) THEN 1 ELSE 0

\* The first captures of the node pattern over all the lines of stream k, as a set.
NodeCaptures(k) ==
  { LinesOf(k)[i][2] : i \in {j \in 1..Len(LinesOf(k)) :
        /\ Len(LinesOf(k)[j]) >= 8
        /\ LinesOf(k)[j][1] = "node" /\ LinesOf(k)[j][2] \in DigitStrings
        /\ LinesOf(k)[j][3] = "." /\ LinesOf(k)[j][4] \in DigitStrings
        /\ LinesOf(k)[j][5] = CANT /\ LinesOf(k)[j][6] \in NonSpaceStrings
        /\ LinesOf(k)[j][7] = DOWN /\ LinesOf(k)[j][8] = ERR26} }

\* s lists exactly the members of S, in strictly ascending str order.
IsSortedListOf(s, S) ==
  /\ {s[i] : i \in 1..Len(s)} = S
  /\ \A i \in 1..(Len(s) - 1) : StrLess(s[i], s[i + 1])

\* C2: the node metadata of a NodeFailureError record is the sorted, duplicate-free
\* list of the captures over all lines of run_err, and a run_err file with the lines
\* of node003 and node017 makes parse() yield exactly one NodeFailureError with
\* node = ["003", "017"].
C2Metadata ==
  AfterFirstParse =>
    /\ \A i \in 1..Len(errors) :
         /\ errors[i].kind = "NodeFailureError" =>
              /\ DOMAIN errors[i].meta_data = {"node"}
              /\ IsSortedListOf(errors[i].meta_data["node"],
                                NodeCaptures("run_err"))
         /\ errors[i].kind # "NodeFailureError" => DOMAIN errors[i].meta_data = {}
    /\ (files["run_err"] # NoneRef /\ fs["run.err"] = Some(<<LNode003, LNode017>>)) =>
         /\ CountOf("NodeFailureError") = 1
         /\ \A i \in 1..Len(errors) :
              errors[i].kind = "NodeFailureError" =>
                errors[i].meta_data["node"] = <<"003", "017">>

AllMissing == \A p \in Paths : fs[p] = NoFile

\* C3: for slurm and for pbs, a parser for four files that are all missing can be
\* constructed, and its parse() returns without raising and leaves the list empty.
C3MissingFiles ==
  /\ (/\ call.op = "get_parser"
      /\ call.scheduler \in DOMAIN ALL_PARSERS
      /\ call.refs = Refs(Streams)
      /\ AllMissing)
       => (raised = "none" /\ parser = ALL_PARSERS[call.scheduler])
  /\ (/\ call.op = "parse"
      /\ files = Refs(Streams)
      /\ AllMissing
      /\ base = <<>>)
       => (raised = "none" /\ errors = <<>>)

C5WrongType ==
  (AfterFirstParse /\ \E k \in Streams : files[k] = NoneRef) =>
    /\ raised = "none"
    /\ \A K \in Kinds : Occurs(K) => CountOf(K) = 1

\* When the first parse() returns, each kind is recorded exactly when its match
\* string occurs in its stream, and the metadata is as described: the two
\* statements above fail only through the exception a None reference ends in.
ReturnedIndependent ==
  (AfterFirstParse /\ raised = "none") =>
    \A K \in Kinds : CountOf(K) = IF Occurs(K) THEN 1 ELSE 0
ReturnedMetadata == raised = "none" => C2Metadata

RECURSIVE Repeat(_, _)
Repeat(s, n) == IF n = 0 THEN <<>> ELSE s \o Repeat(s, n - 1)

\* C6: n calls of parse() with unchanged files leave the list holding n times the
\* records of one call, in the same order each time (no reset, no dedup).
C6Accumulates ==
  parser # NoParser =>
    /\ errors = base \o Repeat(first, since)
    /\ Len(errors) = Len(base) + since * Len(first)

C6Witness ==
  /\ parser = "SlurmErrorParser"
  /\ since = 2
  /\ base = <<>>
  /\ Len(first) = 2
  /\ Len(errors) = 4
  /\ raised = "none"

\* k is the last stream, in the order of errmsg.keys(), with a line that matches.
LastMatching(k) ==
  /\ k \in DOMAIN errmsg
  /\ Hit(k, errmsg[k].string)
  /\ \A i, j \in 1..Len(keys) :
       (keys[i] = k /\ i < j) => ~Hit(keys[j], errmsg[keys[j]].string)

\* C7: the message of an emitted record is the full text of the last line, in file
\* order, that contains the match string (of the last stream that has one); and a
\* call that returns emits the record whenever some line matches.
C7LastMatchWins ==
  /\ \A i \in 1..Len(errors) :
       \E k \in DOMAIN errmsg :
         LastMatching(k) /\ IsLastHit(errors[i].errmsg, k, errmsg[k].string)
  /\ (nparse > 0 /\ raised = "none") =>
       (Len(errors) = IF \E k \in DOMAIN errmsg : Hit(k, errmsg[k].string)
                      THEN nparse ELSE 0)

C7Witness ==
  /\ errmsg = [s \in {"run_err"} |-> Rule(NodeString, NodeFilter)]
  /\ fs["run.err"] = Some(<<LNode10, LPre003>>)
  /\ Len(errors) = 1
  /\ errors[1].errmsg = LPre003

\* C8: metadata extraction runs for a stream only if a line of that same stream
\* contains that stream's match string, whatever was found in earlier streams.
C8OwnStreamOnly ==
  nparse > 0 => \A k \in result.extracted : Hit(k, errmsg[k].string)

\* C9: a kind yields at most one record per parse() call, and the message and the
\* metadata of that record are both those of one stream, the last one that matched.
C9OneRecord ==
  /\ Len(errors) <= nparse
  /\ \A i \in 1..Len(errors) :
       \E k \in DOMAIN errmsg :
         /\ LastMatching(k)
         /\ IsLastHit(errors[i].errmsg, k, errmsg[k].string)
         /\ errors[i].meta_data = extract_metadata(LinesOf(k), errmsg[k].meta_filter)

IsPrefix(s, t) == Len(s) <= Len(t) /\ SubSeq(t, 1, Len(s)) = s

\* Every record's message contains the match string of a rule of its kind.
MessagesMatch ==
  \A i \in 1..Len(errors) :
    /\ errors[i].kind \in Kinds
    /\ \E s \in DOMAIN SlurmErrorDefinitions[errors[i].kind] :
         Contains(errors[i].errmsg, SlurmErrorDefinitions[errors[i].kind][s].string)

\* C10: a step taken on a constructed parser (a parse() that returns or raises, a
\* change of the log files) keeps every record at its index and the four file
\* references as they are; and every record's message contains the match string of
\* a rule of its kind.
C10AppendOnly ==
  /\ [][(parser # NoParser) =>
          (parser' = parser /\ files' = files /\ IsPrefix(errors, errors'))]_vars
  /\ []MessagesMatch

C10Witness ==
  /\ nparse = 2
  /\ since = 1
  /\ raised = "AttributeError"
  /\ Len(base) >= 1
  /\ Len(errors) > Len(base)

====
